---- MODULE Spec2Model ----
(***************************************************************************)
(* Model of the clue-focused location pipeline of geminiService:           *)
(* analyzeImageLocation (experts -> aggregate -> final search) and          *)
(* refineImageLocation, with the external generateContent calls as          *)
(* nondeterministic responses.                                              *)
(***************************************************************************)
EXTENDS Integers, Sequences, FiniteSets, TLC

\* ------------------------------------------------------------------ bounds
\* longest searchableClues list one expert reply carries in the model
MaxCluesPerExpert == 1

\* ------------------------------------------------------- program constants
\* the panel of clue experts, in declaration order
CLUE_EXPERTS == <<"text", "built_environment", "natural_environment">>

ExpertNames == {CLUE_EXPERTS[i] : i \in 1..Len(CLUE_EXPERTS)}

\* confidenceScore / confidence of the literal fallback result
FallbackConfidenceScore == 20
FallbackLocalConfidence == 5
\* default confidenceScore of normalizeResult
DefaultConfidenceScore == 50
\* isDefinitive threshold of normalizeResult
DecoderDefinitiveScore == 80

\* --------------------------------------------------------------- errors
\* An Error is known to the code only through the substrings its message
\* contains: coord  = 'Coordinates are not a valid input',
\*           noresp = 'no response' or 'no text',
\*           safety = 'safety' or 'blocked'.
\* origin tells who constructed the Error object.
MkErr(o, c, n, s) == [origin |-> o, coord |-> c, noresp |-> n, safety |-> s]

NoError == MkErr("none", FALSE, FALSE, FALSE)

\* errors the external generateContent call can reject with
ExternalErrors == {MkErr("external", c, n, s) : c \in BOOLEAN, n \in BOOLEAN, s \in BOOLEAN}

\* "The AI provided no response. This often happens if the image triggers
\*  safety filters ..." (parseResponse, falsy text)
NoResponseError == MkErr("decoder", FALSE, TRUE, TRUE)

\* "Invalid JSON response format from AI. ..." (parseResponse, catch)
InvalidJsonError == MkErr("decoder", FALSE, FALSE, FALSE)

\* "All expert analyses failed. Please try again."
AllExpertsFailedError == MkErr("pipeline", FALSE, FALSE, FALSE)

\* ------------------------------------------------------------ responses
\* an optional JSON value: undefined/null, or present with a value
Some(v) == [present |-> TRUE, val |-> v]
NoNumber == [present |-> FALSE, val |-> 0]
NoString == [present |-> FALSE, val |-> ""]
NoConfidence == [present |-> FALSE, val |-> [region |-> NoNumber, local |-> NoNumber]]
NoEvidence == [present |-> FALSE, val |-> <<>>]

\* an item of the evidence array of a reply
EvidenceItem(c, d, st, su, l) ==
  [clue |-> c, description |-> d, strength |-> st, supports |-> su, location |-> l]

\* searchable clues an expert can report, most prominent first
ClueList ==
  << [clue |-> "Cafe Lumiere", type |-> "business_name", searchQuery |-> Some("Cafe Lumiere Lyon")],
     [clue |-> "red tram",     type |-> "landmark",      searchQuery |-> NoString],
     [clue |-> "Rue Victor",   type |-> "street_name",   searchQuery |-> Some("Cafe Lumiere Lyon")] >>

\* parsed JSON of a final-search / refine reply
SearchPayloads ==
  { [confidenceScore |-> Some(90),
     confidence |-> Some([region |-> Some(90), local |-> Some(40)]),
     coordinates |-> Some("lat/lng"),
     evidence |-> Some(<<EvidenceItem(Some("Cafe Lumiere sign"), NoString, Some("hard"),
                                      Some("Lyon"), NoString)>>)],
    [confidenceScore |-> NoNumber, confidence |-> NoConfidence, coordinates |-> NoString,
     evidence |-> NoEvidence] }

\* grounding citations extractSources can find in a response
\* the text of a response: falsy, without an object, unparsable, or an object
TextOf(k, d) == [kind |-> k, data |-> d]

NoPayload == [searchableClues |-> <<>>]
NoSearchPayload ==
  [confidenceScore |-> NoNumber, confidence |-> NoConfidence, coordinates |-> NoString,
   evidence |-> NoEvidence]

\* outcome of one generateContent call: rejected with err, or resolved
\* with a response carrying text and grounding sources
Resp(rej, e, t, s) == [rejected |-> rej, err |-> e, text |-> t, sources |-> s]

ExpertResponses ==
  {Resp(TRUE, e, TextOf("empty", NoPayload), <<>>) : e \in ExternalErrors}
  \cup {Resp(FALSE, NoError, TextOf(k, NoPayload), <<>>) : k \in {"empty", "nobrace", "badjson"}}
  \cup {Resp(FALSE, NoError, TextOf("json", [searchableClues |-> SubSeq(ClueList, 1, n)]), <<>>) :
          n \in 0..MaxCluesPerExpert}

\* the answers to a search call; extractSources finds grounding citations in
\* a response or none
SearchResponses ==
  {Resp(TRUE, e, TextOf("empty", NoSearchPayload), <<>>) : e \in ExternalErrors}
  \cup {Resp(FALSE, NoError, TextOf(k, NoSearchPayload), <<>>) : k \in {"empty", "nobrace", "badjson"}}
  \cup {Resp(FALSE, NoError, TextOf("json", d), s) : d \in SearchPayloads,
          s \in {<<>>, <<"https://example.org/a">>}}

\* ------------------------------------------------------- Result Decoder
\* parseResponse: value or thrown Error
Parsed(okay, d, e) == [ok |-> okay, data |-> d, err |-> e]

parseResponse(text) ==
  IF text.kind = "empty" THEN Parsed(FALSE, text.data, NoResponseError)
  ELSE IF text.kind = "json" THEN Parsed(TRUE, text.data, NoError)
  ELSE Parsed(FALSE, text.data, InvalidJsonError)

\* Math.round(score * 0.7)
RoundSeventy(score) == (7 * score + 5) \div 10

\* a JS value is truthy: here a string that is present and not empty
Truthy(v) == v.present /\ v.val # ""

\* a || b || c on strings
OrElse(a, b, c) == IF Truthy(a) THEN a.val ELSE IF Truthy(b) THEN b.val ELSE c

\* normalizeEvidence: [] unless an array, else every item with defaults
normalizeEvidence(evidence) ==
  IF ~evidence.present THEN <<>>
  ELSE [i \in DOMAIN evidence.val |->
          LET item == evidence.val[i]
          IN [clue |-> OrElse(item.clue, item.description, "Unknown clue"),
              strength |-> OrElse(item.strength, NoString, "soft"),
              supports |-> OrElse(item.supports, item.location, "Unknown")]]

NoResult ==
  [kind |-> "none", confidenceScore |-> 0,
   confidence |-> [region |-> NoNumber, local |-> NoNumber],
   coordinates |-> NoString, isDefinitive |-> FALSE, candidates |-> "undefined",
   evidence |-> <<>>, sources |-> <<>>, textOnlyNote |-> FALSE]

normalizeResult(data) ==
  LET score == IF data.confidenceScore.present THEN data.confidenceScore.val
               ELSE DefaultConfidenceScore
  IN [kind |-> "result",
      confidenceScore |-> score,
      confidence |-> IF data.confidence.present THEN data.confidence.val
                     ELSE [region |-> Some(score), local |-> Some(RoundSeventy(score))],
      coordinates |-> data.coordinates,
      isDefinitive |-> score >= DecoderDefinitiveScore,
      candidates |-> "undefined",
      evidence |-> normalizeEvidence(data.evidence),
      sources |-> <<>>,
      textOnlyNote |-> FALSE]

\* processGeminiResponse / the decode tail of runFinalSearch:
\* normalizeResult(parsedData) with sources = extractSources(response)
DecodeResult(data, sources, textOnly) ==
  [normalizeResult(data) EXCEPT !.sources = sources, !.textOnlyNote = textOnly]

\* ------------------------------------------- Consensus/Candidate Builder
DEFINITIVE_THRESHOLD == 75
MIN_CANDIDATE_THRESHOLD == 15
GAP_THRESHOLD == 40
\* consensus.topRegions.slice(0, 5)
CandidatePoolSize == 5
\* viableCandidates.slice(0, 3)
MaxCandidates == 3

Min(a, b) == IF a < b THEN a ELSE b
Max(a, b) == IF a > b THEN a ELSE b

\* topRegions.reduce((sum, r) => sum + Math.max(0, r.score), 0)
RECURSIVE TotalScore(_)
TotalScore(rs) ==
  IF rs = <<>> THEN 0 ELSE Max(0, Head(rs).score) + TotalScore(Tail(rs))

\* Math.round((Math.max(0, score) / totalScore) * 100), halves rounded up
RoundPercent(score, totalScore) ==
  (200 * Max(0, score) + totalScore) \div (2 * totalScore)

\* region.charAt(0).toUpperCase() + region.slice(1)
Capitalize(region) == <<"capitalized", region>>

Candidate(r, totalScore) ==
  [locationName |-> Capitalize(r.region),
   coordinates |-> NoString,
   probability |-> RoundPercent(r.score, totalScore)]

\* candidatesWithProb.sort((a, b) => b.probability - a.probability):
\* stable, descending by probability
RECURSIVE InsertByProbability(_, _)
InsertByProbability(sorted, c) ==
  IF sorted = <<>> THEN <<c>>
  ELSE IF sorted[Len(sorted)].probability >= c.probability THEN Append(sorted, c)
  ELSE Append(InsertByProbability(SubSeq(sorted, 1, Len(sorted) - 1), c), sorted[Len(sorted)])

\* the comparator turned round: on a pool that arrives in descending
\* order the list comes out reversed
SortByProbability_Reversed(cs) == [i \in 1..Len(cs) |-> cs[Len(cs) + 1 - i]]

RECURSIVE SortByProbability(_)
SortByProbability(cs) ==
  IF cs = <<>> THEN <<>>
  ELSE InsertByProbability(SortByProbability(SubSeq(cs, 1, Len(cs) - 1)), cs[Len(cs)])

\* the definitive test with > for >=, as its comments word it
IsDefinitive_Strict(cs) ==
  \/ cs[1].probability > DEFINITIVE_THRESHOLD
  \/ (Len(cs) >= 2 /\ cs[1].probability - cs[2].probability > GAP_THRESHOLD)

\* top.probability >= DEFINITIVE_THRESHOLD ||
\*   (second && (top.probability - second.probability) >= GAP_THRESHOLD)
IsDefinitive(cs) ==
  \/ cs[1].probability >= DEFINITIVE_THRESHOLD
  \/ (Len(cs) >= 2 /\ cs[1].probability - cs[2].probability >= GAP_THRESHOLD)

\* the viable candidates returned without the cap of 3
FinalCandidates_NoCap(cs) ==
  SelectSeq(cs, LAMBDA c : c.probability >= MIN_CANDIDATE_THRESHOLD)

\* candidatesWithProb.filter(c => c.probability >= 15).slice(0, 3)
FinalCandidates(cs) ==
  LET viableCandidates == SelectSeq(cs, LAMBDA c : c.probability >= MIN_CANDIDATE_THRESHOLD)
  IN SubSeq(viableCandidates, 1, Min(MaxCandidates, Len(viableCandidates)))

Built(def, cs) == [isDefinitive |-> def, candidates |-> cs]

buildCandidatesFromConsensus(consensusTopRegions) ==
  LET topRegions == SubSeq(consensusTopRegions, 1,
                           Min(CandidatePoolSize, Len(consensusTopRegions)))
      totalScore == TotalScore(topRegions)
      candidatesWithProb ==
        SortByProbability([i \in 1..Len(topRegions) |-> Candidate(topRegions[i], totalScore)])
  IN IF Len(topRegions) = 0 THEN Built(FALSE, <<>>)
     ELSE IF totalScore = 0 THEN Built(FALSE, <<>>)
     ELSE IF IsDefinitive(candidatesWithProb)
     THEN Built(TRUE, SubSeq(candidatesWithProb, 1, 1))
     ELSE Built(FALSE, FinalCandidates(candidatesWithProb))

\* scores a region can reach: confidences added, 50 taken off per veto
RegionScores == {-50, 0, 20, 30, 50, 70, 150, 200}

\* longest consensus.topRegions of the model (the code keeps at most 10)
MaxTopRegions == 6

\* score lists sorted descending, as aggregateExpertResults sorts them
RECURSIVE SortedScores(_)
SortedScores(n) ==
  IF n = 0 THEN {<<>>}
  ELSE LET shorter == SortedScores(n - 1)
           longest == {r \in shorter : Len(r) = n - 1}
       IN shorter \cup
          UNION { {Append(q, x) : x \in {y \in RegionScores : q = <<>> \/ y <= q[Len(q)]}}
                  : q \in longest }

\* ---------------------------------------------------- Clue Expert Runner
\* a promise of runClueExpert: not created, pending, or settled
NoOutput == [expertType |-> "", searchableClues |-> <<>>]

Promise(st, null, o, e) == [state |-> st, isNull |-> null, out |-> o, err |-> e]

NotStarted == Promise("none", TRUE, NoOutput, NoError)
Pending == Promise("pending", TRUE, NoOutput, NoError)

\* runClueExpert without its try/catch: a failure rejects the promise
runClueExpert_Uncaught(expertName, r) ==
  LET parsed == parseResponse(r.text)
  IN IF ~r.rejected /\ parsed.ok
     THEN Promise("fulfilled", FALSE,
                  [expertType |-> expertName,
                   searchableClues |-> parsed.data.searchableClues], NoError)
     ELSE Promise("rejected", TRUE, NoOutput, IF r.rejected THEN r.err ELSE parsed.err)

\* runClueExpert once its generateContent call has answered with r:
\* try { call; parseResponse; return output } catch { return null }
runClueExpert(expertName, r) ==
  LET parsed == parseResponse(r.text)
  IN IF ~r.rejected /\ parsed.ok
     THEN Promise("fulfilled", FALSE,
                  [expertType |-> expertName,
                   searchableClues |-> parsed.data.searchableClues], NoError)
     ELSE Promise("fulfilled", TRUE, NoOutput, NoError)

\* Promise.race in place of Promise.all: settled with the first promise
PromiseAll_Race(ps) ==
  IF \E e \in DOMAIN ps : ps[e].state = "rejected" THEN "rejected"
  ELSE IF \E e \in DOMAIN ps : ps[e].state = "fulfilled" THEN "fulfilled"
  ELSE "pending"

\* Promise.all over the panel: rejected as soon as one promise is rejected,
\* fulfilled once every promise is fulfilled, pending otherwise
PromiseAll(ps) ==
  IF \E e \in DOMAIN ps : ps[e].state = "rejected" THEN "rejected"
  ELSE IF \A e \in DOMAIN ps : ps[e].state = "fulfilled" THEN "fulfilled"
  ELSE "pending"

\* the valid results collected newest first (unshift for push)
RECURSIVE FilterValid_Reversed(_, _)
FilterValid_Reversed(ps, i) ==
  IF i > Len(CLUE_EXPERTS) THEN <<>>
  ELSE LET p == ps[CLUE_EXPERTS[i]]
       IN FilterValid_Reversed(ps, i + 1) \o (IF p.isNull THEN <<>> ELSE <<p.out>>)

\* results.filter(r => r !== null), results in panel order
RECURSIVE FilterValid(_, _)
FilterValid(ps, i) ==
  IF i > Len(CLUE_EXPERTS) THEN <<>>
  ELSE LET p == ps[CLUE_EXPERTS[i]]
       IN (IF p.isNull THEN <<>> ELSE <<p.out>>) \o FilterValid(ps, i + 1)

ValidResults(ps) == FilterValid(ps, 1)

\* -------------------------------------------------------- Clue Aggregator
RECURSIVE ConcatClues(_)
ConcatClues(rs) ==
  IF rs = <<>> THEN <<>> ELSE Head(rs).searchableClues \o ConcatClues(Tail(rs))

\* the truthy searchQuery values of a clue list, in order
RECURSIVE QueriesOf(_)
QueriesOf(cs) ==
  IF cs = <<>> THEN <<>>
  ELSE (IF Head(cs).searchQuery.present /\ Head(cs).searchQuery.val # ""
        THEN <<Head(cs).searchQuery.val>> ELSE <<>>) \o QueriesOf(Tail(cs))

\* [...new Set(xs)]: first occurrences, in order
RECURSIVE Unique(_)
Unique(xs) ==
  IF xs = <<>> THEN <<>>
  ELSE LET front == Unique(SubSeq(xs, 1, Len(xs) - 1))
           last == xs[Len(xs)]
       IN IF \E i \in 1..Len(front) : front[i] = last THEN front ELSE Append(front, last)

NoClues == [searchableClues |-> <<>>, allText |-> <<>>, suggestedSearchQueries |-> <<>>]

\* the list field f of an expert output, [] when the output has none
ListField(expert, f) == IF f \in DOMAIN expert THEN expert[f] ELSE <<>>

\* allText before filtering: transcribedText then languageClues of every
\* expert, in order (allInfrastructure and allNature are built the same way)
RECURSIVE CollectText(_)
CollectText(rs) ==
  IF rs = <<>> THEN <<>>
  ELSE ListField(Head(rs), "transcribedText") \o ListField(Head(rs), "languageClues")
       \o CollectText(Tail(rs))

\* xs.filter(t => t) on strings
NonEmpty(xs) == SelectSeq(xs, LAMBDA t : t # "")

\* aggregateClues reading only the first expert's result
aggregateClues_FirstOnly(expertResults) ==
  LET allSearchable == ConcatClues(SubSeq(expertResults, 1, 1))
  IN [searchableClues |-> allSearchable,
      allText |-> Unique(NonEmpty(CollectText(SubSeq(expertResults, 1, 1)))),
      suggestedSearchQueries |-> Unique(QueriesOf(allSearchable))]

aggregateClues(expertResults) ==
  LET allSearchable == ConcatClues(expertResults)
  IN [searchableClues |-> allSearchable,
      allText |-> Unique(NonEmpty(CollectText(expertResults))),
      suggestedSearchQueries |-> Unique(QueriesOf(allSearchable))]

\* ------------------------------------------------- runFinalSearch control
\* Where runFinalSearch waits for a generateContent call:
\*   full               first call, inside the outer try
\*   retry              call without googleMaps, inside the inner try
\*   textAfterEmptyFull   runTextOnlySearch awaited inside the outer try
\*   textAfterEmptyRetry  runTextOnlySearch awaited inside the inner try
\*   textAfterRetryError  runTextOnlySearch awaited in the inner catch
\*   textAfterFullError   runTextOnlySearch awaited in the outer catch
TextPositions ==
  {"textAfterEmptyFull", "textAfterEmptyRetry", "textAfterRetryError", "textAfterFullError"}

CallPositions == {"full", "retry"} \cup TextPositions

InOuterTry == {"full", "textAfterEmptyFull"}
InInnerTry == {"retry", "textAfterEmptyRetry"}

\* a text-only request that still carries the image parts
CallOf_TextWithImages(pos) ==
  IF pos = "full"
  THEN [kind |-> "full", images |-> TRUE, tools |-> {"googleSearch", "googleMaps"}]
  ELSE IF pos = "retry"
  THEN [kind |-> "tool_reduced", images |-> TRUE, tools |-> {"googleSearch"}]
  ELSE [kind |-> "text_only", images |-> TRUE, tools |-> {"googleSearch"}]

\* the request sent at a position: which step of the chain it is, whether
\* the image parts are sent, and the tools enabled
CallOf(pos) ==
  IF pos = "full"
  THEN [kind |-> "full", images |-> TRUE, tools |-> {"googleSearch", "googleMaps"}]
  ELSE IF pos = "retry"
  THEN [kind |-> "tool_reduced", images |-> TRUE, tools |-> {"googleSearch"}]
  ELSE [kind |-> "text_only", images |-> FALSE, tools |-> {"googleSearch"}]

\* what the code does next: wait at another position, return, or throw
Goto(pos) == [t |-> "call", pos |-> pos, err |-> NoError]
Return == [t |-> "return", pos |-> "returned", err |-> NoError]
Throw(e) == [t |-> "throw", pos |-> "threw", err |-> e]

\* the statements after the await at pos, up to the next await/return/throw
SearchBody(pos, r) ==
  IF r.rejected THEN Throw(r.err)
  ELSE IF pos \in {"full", "retry"} /\ r.text.kind = "empty"
  THEN Goto(IF pos = "full" THEN "textAfterEmptyFull" ELSE "textAfterEmptyRetry")
  ELSE LET parsed == parseResponse(r.text)
       IN IF parsed.ok THEN Return ELSE Throw(parsed.err)

\* SearchCatch retrying text-only for as long as the reply is empty
SearchCatch_RetryForever(pos, e) ==
  IF pos \in InOuterTry
  THEN IF e.coord THEN Goto("retry")
       ELSE IF e.noresp \/ e.safety THEN Goto("textAfterFullError")
       ELSE Throw(e)
  ELSE IF pos \in InInnerTry
  THEN IF e.noresp THEN Goto("textAfterRetryError") ELSE Throw(e)
  ELSE IF e.noresp THEN Goto(pos) ELSE Throw(e)

\* the catch clause an exception raised at pos lands in
SearchCatch(pos, e) ==
  IF pos \in InOuterTry
  THEN IF e.coord THEN Goto("retry")
       ELSE IF e.noresp \/ e.safety THEN Goto("textAfterFullError")
       ELSE Throw(e)
  ELSE IF pos \in InInnerTry
  THEN IF e.noresp THEN Goto("textAfterRetryError") ELSE Throw(e)
  ELSE Throw(e)

\* the outer catch falling back to text-only on any error but the
\* coordinate rejection
runFinalSearchStep_TextOnlyOnAnyError(pos, r) ==
  LET body == SearchBody(pos, r)
  IN IF body.t # "throw" THEN body
     ELSE IF pos \in InOuterTry /\ ~body.err.coord THEN Goto("textAfterFullError")
     ELSE SearchCatch(pos, body.err)

runFinalSearchStep(pos, r) ==
  LET body == SearchBody(pos, r)
  IN IF body.t = "throw" THEN SearchCatch(pos, body.err) ELSE body

\* ------------------------------------------------- callGeminiWithRetry
\* positions of refineImageLocation: full call inside the try, retry
\* without googleMaps inside the catch
callGeminiWithRetryStep(pos, r) ==
  IF ~r.rejected THEN Return
  ELSE IF pos = "full" /\ r.err.coord THEN Goto("retry")
  ELSE Throw(r.err)

\* ------------------------------------------------------------- results
NoOutcome == [kind |-> "none", err |-> NoError, result |-> NoResult]
Raised(e) == [kind |-> "error", err |-> e, result |-> NoResult]
Returned(res) == [kind |-> "result", err |-> NoError, result |-> res]

\* processGeminiResponse: parseResponse, extractSources, normalizeResult
processGeminiResponse(r) ==
  LET parsedData == parseResponse(r.text)
  IN IF parsedData.ok THEN Returned(DecodeResult(parsedData.data, r.sources, FALSE))
     ELSE Raised(parsedData.err)

\* evidence built from the first clue only
FallbackEvidence_FirstOnly(cs) ==
  IF cs = <<>> THEN <<>>
  ELSE <<[clue |-> Head(cs).clue,
          strength |-> IF Head(cs).type \in {"business_name", "street_name"}
                       THEN "hard" ELSE "medium",
          supports |-> "Unknown - search failed"]>>

RECURSIVE FallbackEvidence(_)
FallbackEvidence(cs) ==
  IF cs = <<>> THEN <<>>
  ELSE <<[clue |-> Head(cs).clue,
          strength |-> IF Head(cs).type \in {"business_name", "street_name"}
                       THEN "hard" ELSE "medium",
          supports |-> "Unknown - search failed"]>> \o FallbackEvidence(Tail(cs))

\* the literal fallbackResult of analyzeImageLocation
fallbackResult(clues) ==
  [kind |-> "result",
   confidenceScore |-> FallbackConfidenceScore,
   confidence |-> [region |-> Some(FallbackConfidenceScore),
                   local |-> Some(FallbackLocalConfidence)],
   coordinates |-> NoString,
   isDefinitive |-> TRUE,
   candidates |-> "undefined",
   evidence |-> FallbackEvidence(clues.searchableClues),
   sources |-> <<>>,
   textOnlyNote |-> FALSE]

\* the catch around runFinalSearch rethrowing instead of falling back
catchSearchError_Rethrow(clues, searchError) == Raised(searchError)

\* catch (searchError) of analyzeImageLocation: the fallback is returned
catchSearchError(clues, searchError) == Returned(fallbackResult(clues))

\* ---------------------------------------------------------------- state
VARIABLES
  phase,        \* position of analyzeImageLocation, by pipeline stage
  experts,      \* the promise of each runClueExpert call
  expertRuns,   \* generateContent calls issued per expert
  validResults, \* runAllClueExperts' return value
  aggregated,   \* aggregatedClues
  aggCount,     \* invocations of aggregateClues
  verifyCount,  \* invocations of runFinalSearch
  normCount,    \* invocations of normalizeResult within Analyze
  vpos,         \* position inside runFinalSearch
  calls,        \* requests runFinalSearch has sent, in order
  decoded,      \* the response whose text parsed, awaiting normalizeResult
  verr,         \* the error runFinalSearch threw
  result,       \* the result object being built
  outcome,      \* what analyzeImageLocation handed to its caller
  rpos,         \* position inside refineImageLocation
  rcalls,       \* requests refineImageLocation has sent, in order
  routcome,     \* what refineImageLocation handed to its caller
  ai,           \* the module-level client singleton _ai
  outOfOrder,   \* history: an expert settled after a later one of the panel
  stub,         \* a deterministic reasoning service: request kind -> response
  firstOutcome, \* what an earlier, identical Refine call returned
  callFn,       \* the pure function applied on its own ("none" before)
  callArg,      \* its argument
  callRet,      \* its return value
  credits,      \* users.credits of the user sending the requests
  requests      \* each POST /api/analyze request: position and locals

analyzeVars ==
  <<phase, experts, expertRuns, validResults, aggregated, aggCount, verifyCount,
    normCount, vpos, calls, decoded, verr, result, outcome>>
refineVars == <<rpos, rcalls, routcome>>
routeVars == <<credits, requests>>
auxVars == <<stub, firstOutcome, callFn, callArg, callRet, routeVars>>
vars == <<analyzeVars, refineVars, ai, outOfOrder, auxVars>>

\* getAI: the client is created on first use and reused afterwards
NoClient == "null"
getAI(current) == IF current = NoClient THEN "GoogleGenAI" ELSE current

\* position of an expert in the panel
PanelIndex(e) == CHOOSE i \in 1..Len(CLUE_EXPERTS) : CLUE_EXPERTS[i] = e

\* value of a variable a specification does not use
Unused == <<>>

NoDecoded == [data |-> NoSearchPayload, sources |-> <<>>, textOnly |-> FALSE]

\* ------------------------------------------------- POST /api/analyze state
\* concurrent requests of the one user
MaxRequests == 2

Requests == 1..MaxRequests

\* search_cost when the setting is absent; the premium services are off
DefaultSearchCost == 10

\* users.credits of a new user
DefaultCredits == 100

\* EXIF of the first image that has GPS tags, if any
NoExif == [hasGps |-> FALSE, latitude |-> 0, longitude |-> 0]

NoResponse ==
  [sent |-> FALSE, result |-> NoResult, exifCopied |-> FALSE,
   lat |-> 0, lng |-> 0, creditsRemaining |-> 0]

\* a request not yet received
NoRequest ==
  [pc |-> "idle", exif |-> NoExif, code |-> "", deducted |-> 0, refunded |-> 0,
   response |-> NoResponse]

\* the state after module load, before any request
InitCore ==
  /\ phase = "Started"
  /\ experts = [e \in ExpertNames |-> NotStarted]
  /\ expertRuns = [e \in ExpertNames |-> 0]
  /\ validResults = <<>>
  /\ aggregated = NoClues
  /\ aggCount = 0
  /\ verifyCount = 0
  /\ normCount = 0
  /\ vpos = "idle"
  /\ calls = <<>>
  /\ decoded = NoDecoded
  /\ verr = NoError
  /\ result = NoResult
  /\ outcome = NoOutcome
  /\ rpos = "idle"
  /\ rcalls = <<>>
  /\ routcome = NoOutcome
  /\ ai = NoClient
  /\ outOfOrder = FALSE
  /\ stub = Unused
  /\ firstOutcome = NoOutcome
  /\ callFn = "none"
  /\ callRet = Unused
  /\ requests = [q \in Requests |-> NoRequest]

InitBase == InitCore /\ credits = DefaultCredits

Init == InitBase /\ callArg = Unused

\* ------------------------------------------------ analyzeImageLocation
\* runAllClueExperts: CLUE_EXPERTS.map(runClueExpert) starts every expert
\* call, then awaits Promise.all
StartExperts ==
  /\ phase = "Started"
  /\ phase' = "ExpertsRunning"
  /\ experts' = [e \in ExpertNames |-> Pending]
  /\ ai' = getAI(ai)
  /\ expertRuns' = [e \in ExpertNames |-> expertRuns[e] + 1]
  /\ UNCHANGED <<validResults, aggregated, aggCount, verifyCount, normCount, vpos,
                 calls, decoded, verr, result, outcome, refineVars, outOfOrder, auxVars>>

\* one expert's generateContent call answers
ExpertRespond(e, r) ==
  /\ phase = "ExpertsRunning"
  /\ experts[e].state = "pending"
  /\ experts' = [experts EXCEPT ![e] = runClueExpert(e, r)]
  /\ outOfOrder' = (outOfOrder \/ \E l \in ExpertNames :
                        PanelIndex(l) > PanelIndex(e) /\ experts[l].state # "pending")
  /\ UNCHANGED <<phase, expertRuns, validResults, aggregated, aggCount, verifyCount,
                 normCount, vpos, calls, decoded, verr, result, outcome, refineVars, ai, auxVars>>

\* analyzeImageLocation without the clueExperts.length === 0 check
ExpertsAllFailed_NoAbort ==
  /\ phase = "ExpertsRunning"
  /\ PromiseAll(experts) = "fulfilled"
  /\ Len(ValidResults(experts)) = 0
  /\ phase' = "ExpertsComplete"
  /\ validResults' = ValidResults(experts)
  /\ UNCHANGED <<experts, expertRuns, aggregated, aggCount, verifyCount, normCount,
                 vpos, calls, decoded, verr, result, outcome, refineVars, ai, outOfOrder, auxVars>>

\* Promise.all settles with no valid result (or rejects): analyze throws
ExpertsAllFailed ==
  /\ phase = "ExpertsRunning"
  /\ PromiseAll(experts) # "pending"
  /\ \/ PromiseAll(experts) = "rejected"
     \/ Len(ValidResults(experts)) = 0
  /\ phase' = "ExpertsFailed"
  /\ validResults' = IF PromiseAll(experts) = "rejected" THEN <<>> ELSE ValidResults(experts)
  /\ outcome' = IF PromiseAll(experts) = "rejected"
                THEN Raised(experts[CHOOSE e \in ExpertNames : experts[e].state = "rejected"].err)
                ELSE Raised(AllExpertsFailedError)
  /\ UNCHANGED <<experts, expertRuns, aggregated, aggCount, verifyCount, normCount,
                 vpos, calls, decoded, verr, result, refineVars, ai, outOfOrder, auxVars>>

\* Promise.all fulfils with at least one valid result
ExpertsSettled ==
  /\ phase = "ExpertsRunning"
  /\ PromiseAll(experts) = "fulfilled"
  /\ Len(ValidResults(experts)) > 0
  /\ phase' = "ExpertsComplete"
  /\ validResults' = ValidResults(experts)
  /\ UNCHANGED <<experts, expertRuns, aggregated, aggCount, verifyCount, normCount,
                 vpos, calls, decoded, verr, result, outcome, refineVars, ai, outOfOrder, auxVars>>

\* aggregateClues(clueExperts)
Aggregate ==
  /\ phase = "ExpertsComplete"
  /\ phase' = "Aggregating"
  /\ aggregated' = aggregateClues(validResults)
  /\ aggCount' = aggCount + 1
  /\ UNCHANGED <<experts, expertRuns, validResults, verifyCount, normCount, vpos,
                 calls, decoded, verr, result, outcome, refineVars, ai, outOfOrder, auxVars>>

\* runFinalSearch is entered and sends the full-capability request
BeginVerify ==
  /\ phase = "Aggregating"
  /\ phase' = "Verifying"
  /\ verifyCount' = verifyCount + 1
  /\ vpos' = "full"
  /\ calls' = Append(calls, CallOf("full"))
  /\ UNCHANGED <<experts, expertRuns, validResults, aggregated, aggCount, normCount,
                 decoded, verr, result, outcome, refineVars, ai, outOfOrder, auxVars>>

\* the request runFinalSearch waits on answers
SearchRespond(r) ==
  /\ phase = "Verifying"
  /\ vpos \in CallPositions
  /\ LET step == runFinalSearchStep(vpos, r)
     IN /\ vpos' = step.pos
        /\ calls' = IF step.t = "call" THEN Append(calls, CallOf(step.pos)) ELSE calls
        /\ phase' = IF step.t = "return" THEN "VerificationComplete"
                    ELSE IF step.t = "throw" THEN "VerificationFailed"
                    ELSE phase
        /\ decoded' = IF step.t = "return"
                      THEN [data |-> r.text.data, sources |-> r.sources,
                            textOnly |-> vpos \in TextPositions]
                      ELSE decoded
        /\ verr' = step.err
  /\ UNCHANGED <<experts, expertRuns, validResults, aggregated, aggCount, verifyCount,
                 normCount, result, outcome, refineVars, ai, outOfOrder, auxVars>>

\* normalizeResult(parsedData), sources, fillVisualCues; runFinalSearch returns
Normalize ==
  /\ phase = "VerificationComplete"
  /\ phase' = "Normalizing"
  /\ result' = DecodeResult(decoded.data, decoded.sources, decoded.textOnly)
  /\ normCount' = normCount + 1
  /\ UNCHANGED <<experts, expertRuns, validResults, aggregated, aggCount, verifyCount,
                 vpos, calls, decoded, verr, outcome, refineVars, ai, outOfOrder, auxVars>>

\* the success path returning the result as normalizeResult left it
Finish_KeepDecoderValue ==
  /\ phase = "Normalizing"
  /\ phase' = "Done"
  /\ result' = result
  /\ outcome' = Returned(result')
  /\ UNCHANGED <<experts, expertRuns, validResults, aggregated, aggCount, verifyCount,
                 normCount, vpos, calls, decoded, verr, refineVars, ai, outOfOrder, auxVars>>

\* result.isDefinitive = true; result.candidates = undefined; return result
Finish ==
  /\ phase = "Normalizing"
  /\ phase' = "Done"
  /\ result' = [result EXCEPT !.isDefinitive = TRUE, !.candidates = "undefined"]
  /\ outcome' = Returned(result')
  /\ UNCHANGED <<experts, expertRuns, validResults, aggregated, aggCount, verifyCount,
                 normCount, vpos, calls, decoded, verr, refineVars, ai, outOfOrder, auxVars>>

\* the fallback handed on to the success path instead of being returned
Fallback_ThroughNormalize ==
  /\ phase = "VerificationFailed"
  /\ phase' = "Normalizing"
  /\ result' = fallbackResult(aggregated)
  /\ UNCHANGED <<experts, expertRuns, validResults, aggregated, aggCount, verifyCount,
                 normCount, vpos, calls, decoded, verr, outcome, refineVars, ai, outOfOrder, auxVars>>

\* catch (searchError): return fallbackResult
Fallback ==
  /\ phase = "VerificationFailed"
  /\ phase' = "FallbackResult"
  /\ outcome' = catchSearchError(aggregated, verr)
  /\ result' = outcome'.result
  /\ UNCHANGED <<experts, expertRuns, validResults, aggregated, aggCount, verifyCount,
                 normCount, vpos, calls, decoded, verr, refineVars, ai, outOfOrder, auxVars>>

\* ------------------------------------------------- refineImageLocation
\* a call that skips the full request once the client has been created
RefineStart_SkipFullWhenWarm ==
  /\ outcome.kind = "result"
  /\ rpos = "idle"
  /\ rpos' = IF ai = NoClient THEN "full" ELSE "retry"
  /\ rcalls' = Append(rcalls, CallOf(rpos'))
  /\ ai' = getAI(ai)
  /\ UNCHANGED <<analyzeVars, routcome, outOfOrder, auxVars>>

\* callGeminiWithRetry sends the full-capability request
\* (the caller refines a result it holds: handleRefine returns early
\* without one)
RefineStart ==
  /\ outcome.kind = "result"
  /\ rpos = "idle"
  /\ rpos' = "full"
  /\ rcalls' = Append(rcalls, CallOf("full"))
  /\ ai' = getAI(ai)
  /\ UNCHANGED <<analyzeVars, routcome, outOfOrder, auxVars>>

\* the request callGeminiWithRetry waits on answers; on a response,
\* processGeminiResponse decodes it
RefineRespond(r) ==
  /\ rpos \in {"full", "retry"}
  /\ LET step == callGeminiWithRetryStep(rpos, r)
         processed == processGeminiResponse(r)
     IN /\ rpos' = IF step.t = "return" /\ processed.kind = "error" THEN "threw" ELSE step.pos
        /\ rcalls' = IF step.t = "call" THEN Append(rcalls, CallOf(step.pos)) ELSE rcalls
        /\ routcome' = IF step.t = "throw" THEN Raised(step.err)
                       ELSE IF step.t = "call" THEN routcome
                       ELSE processed
  /\ UNCHANGED <<analyzeVars, ai, outOfOrder, auxVars>>

\* ------------------------------------------------------- specification
AnalyzeNext ==
  \/ StartExperts
  \/ \E e \in ExpertNames, r \in ExpertResponses : ExpertRespond(e, r)
  \/ ExpertsAllFailed
  \/ ExpertsSettled
  \/ Aggregate
  \/ BeginVerify
  \/ \E r \in SearchResponses : SearchRespond(r)
  \/ Normalize
  \/ Finish
  \/ Fallback

RefineNext ==
  \/ RefineStart
  \/ \E r \in SearchResponses : RefineRespond(r)

Next == AnalyzeNext \/ RefineNext

Spec == Init /\ [][Next]_vars

\* every external call is eventually answered and the code between two
\* awaits runs to its next await
FairSpec == Spec /\ WF_vars(AnalyzeNext) /\ WF_vars(RefineNext)

\* ------------------------------------- buildCandidatesFromConsensus alone
\* consensus.topRegions: distinct regions, sorted by score descending
BuilderInit ==
  /\ InitBase
  /\ callArg \in {[i \in 1..Len(q) |-> [region |-> i, score |-> q[i]]] :
                    q \in SortedScores(MaxTopRegions)}

BuildCandidates ==
  /\ callFn = "none"
  /\ callFn' = "buildCandidatesFromConsensus"
  /\ callRet' = buildCandidatesFromConsensus(callArg)
  /\ UNCHANGED <<analyzeVars, refineVars, ai, outOfOrder, stub, firstOutcome, callArg, routeVars>>

BuilderNext == BuildCandidates

BuilderSpec == BuilderInit /\ [][BuilderNext]_vars

\* --------------------------------------------- processGeminiResponse alone
\* longest evidence array of a reply
MaxEvidence == 1

StrengthValues ==
  {NoString, Some(""), Some("hard"), Some("medium"), Some("soft"), Some("strong")}

EvidenceItems ==
  {EvidenceItem(Some("shop sign"), NoString, st, Some("Lyon"), NoString) : st \in StrengthValues}
  \cup {EvidenceItem(NoString, Some("a tram"), st, NoString, Some("France")) : st \in StrengthValues}
  \cup {EvidenceItem(NoString, NoString, st, NoString, NoString) : st \in StrengthValues}

RECURSIVE SeqsUpTo(_, _)
SeqsUpTo(S, n) ==
  IF n = 0 THEN {<<>>}
  ELSE LET shorter == SeqsUpTo(S, n - 1)
       IN shorter \cup {Append(q, x) : q \in {r \in shorter : Len(r) = n - 1}, x \in S}

\* parsed replies: the confidenceScore, the confidence object (region, local)
\* and the evidence list each absent or present, in and out of range
DecoderPayloads ==
  {[confidenceScore |-> sc, confidence |-> cf, coordinates |-> NoString, evidence |-> ev] :
     sc \in {NoNumber} \cup {Some(n) : n \in {-5, 0, 50, 90, 100, 150}},
     cf \in {NoConfidence}
            \cup {Some([region |-> r, local |-> l]) : r, l \in {NoNumber, Some(90), Some(120)}},
     ev \in {NoEvidence} \cup {Some(q) : q \in SeqsUpTo(EvidenceItems, MaxEvidence)}}

DecoderInit ==
  /\ InitBase
  /\ callArg \in {Resp(FALSE, NoError, TextOf(k, NoSearchPayload), <<>>) :
                    k \in {"empty", "nobrace", "badjson"}}
                 \cup {Resp(FALSE, NoError, TextOf("json", d), <<>>) : d \in DecoderPayloads}

ProcessResponse ==
  /\ callFn = "none"
  /\ callFn' = "processGeminiResponse"
  /\ callRet' = processGeminiResponse(callArg)
  /\ UNCHANGED <<analyzeVars, refineVars, ai, outOfOrder, stub, firstOutcome, callArg, routeVars>>

DecoderNext == ProcessResponse

DecoderSpec == DecoderInit /\ [][DecoderNext]_vars

\* ------------------------------------------------ parseResponse on raw text
\* longest raw text
MaxTextLen == 4

\* text.indexOf(c), counted from 1; 0 when c does not occur
IndexOf(text, c) ==
  IF \E i \in DOMAIN text : text[i] = c
  THEN CHOOSE i \in DOMAIN text : text[i] = c /\ \A j \in 1..(i - 1) : text[j] # c
  ELSE 0

\* text.lastIndexOf(c), counted from 1; 0 when c does not occur
LastIndexOf(text, c) ==
  IF \E i \in DOMAIN text : text[i] = c
  THEN CHOOSE i \in DOMAIN text : text[i] = c /\ \A j \in (i + 1)..Len(text) : text[j] # c
  ELSE 0

\* text.substring(start, end) with 0-based start and exclusive end:
\* the arguments are swapped when start > end
Substring(text, start, end) ==
  IF start > end THEN SubSeq(text, end + 1, start) ELSE SubSeq(text, start + 1, end)

\* the value JSON.parse builds: a number or an object of at most one member
JsonNumber(n) == [type |-> "number", digits |-> n, member |-> <<>>]
JsonObject(m) == [type |-> "object", digits |-> 0, member |-> m]

\* JSON.parse accepts s
RECURSIVE IsJson(_)
IsJson(s) ==
  \/ Len(s) >= 1 /\ \A i \in DOMAIN s : s[i] = "1"
  \/ s = <<"{", "}">>
  \/ /\ Len(s) >= 4
     /\ s[1] = "{" /\ s[2] = "k" /\ s[Len(s)] = "}"
     /\ IsJson(SubSeq(s, 3, Len(s) - 1))

\* JSON.parse(s) for an accepted s
RECURSIVE JsonParse(_)
JsonParse(s) ==
  IF s[1] = "1" THEN JsonNumber(Len(s))
  ELSE IF Len(s) = 2 THEN JsonObject(<<>>)
  ELSE JsonObject(<<JsonParse(SubSeq(s, 3, Len(s) - 1))>>)

NoJson == JsonNumber(0)

\* parseResponse on the characters of the text
parseResponseText(text) ==
  IF text = <<>> THEN Parsed(FALSE, NoJson, NoResponseError)
  ELSE LET firstBrace == IndexOf(text, "{") - 1
           lastBrace == LastIndexOf(text, "}") - 1
           jsonString == Substring(text, firstBrace, lastBrace + 1)
       IN IF firstBrace = -1 \/ lastBrace = -1 THEN Parsed(FALSE, NoJson, InvalidJsonError)
          ELSE IF IsJson(jsonString) THEN Parsed(TRUE, JsonParse(jsonString), NoError)
          ELSE Parsed(FALSE, NoJson, InvalidJsonError)

\* the characters of a raw text: braces, a digit, a member key with its
\* colon ("a":), and a character that belongs to no JSON value
ParserInit == InitBase /\ callArg \in SeqsUpTo({"{", "}", "1", "k", "x"}, MaxTextLen)

ParseText ==
  /\ callFn = "none"
  /\ callFn' = "parseResponse"
  /\ callRet' = parseResponseText(callArg)
  /\ UNCHANGED <<analyzeVars, refineVars, ai, outOfOrder, stub, firstOutcome, callArg, routeVars>>

ParserNext == ParseText

ParserSpec == ParserInit /\ [][ParserNext]_vars

\* ---------------------------------------------------------- normalizeRegion
\* most pieces a region string is put together from
MaxPieces == 3

\* a string is the sequence of its characters
RegionPieces ==
  { <<"w", "e">>, <<"w", "e", "s", "t", "e", "r", "n", " ">>,
    <<"s", "t", "e", "r", "n", " ", "e", "u", "r", "o", "p", "e">>, <<"e", "u", "r", "o", "p", "e">>,
    <<" ", "(", "x", ")">>, <<",", " ", "y">>, <<"C", "o", "a", "s", "t", "a", "l", " ">> }

RECURSIVE Concat(_)
Concat(ps) == IF ps = <<>> THEN <<>> ELSE Head(ps) \o Concat(Tail(ps))

\* the alternatives of the directional regex, each with its trailing space
Directionals ==
  { <<"s", "o", "u", "t", "h", "e", "r", "n", " ">>, <<"n", "o", "r", "t", "h", "e", "r", "n", " ">>, <<"e", "a", "s", "t", "e", "r", "n", " ">>,
    <<"w", "e", "s", "t", "e", "r", "n", " ">>, <<"c", "o", "a", "s", "t", "a", "l", " ">>, <<"c", "e", "n", "t", "r", "a", "l", " ">> }

\* String.prototype.toLowerCase on the capitals that occur
toLowerCase(str) == [i \in DOMAIN str |-> IF str[i] = "C" THEN "c" ELSE str[i]]

IsSpace(c) == c = " "

\* replace(/\s*\([^)]*\)/g, ''): every run of spaces, "(", up to the
\* next ")", scanning from the left
RECURSIVE RemoveParentheticals(_)
RemoveParentheticals(str) ==
  LET open == IndexOf(str, "(")
      rest == SubSeq(str, open + 1, Len(str))
      close == IndexOf(rest, ")")
  IN IF open = 0 \/ close = 0 THEN str
     ELSE LET start == CHOOSE i \in 1..open :
                         /\ \A j \in i..(open - 1) : IsSpace(str[j])
                         /\ \A k \in 1..(i - 1) : \E j \in k..(open - 1) : ~IsSpace(str[j])
          IN SubSeq(str, 1, start - 1)
             \o RemoveParentheticals(SubSeq(rest, close + 1, Len(rest)))

\* replace(/,.*$/, ''): everything from the first comma on
RemoveAfterComma(str) ==
  LET comma == IndexOf(str, ",")
  IN IF comma = 0 THEN str ELSE SubSeq(str, 1, comma - 1)

StartsWith(str, w) == Len(str) >= Len(w) /\ SubSeq(str, 1, Len(w)) = w

\* replace(/southern |northern |.../g, ''): one scan from the left that
\* resumes after each removed match
RECURSIVE RemoveDirectionals(_)
RemoveDirectionals(str) ==
  IF str = <<>> THEN <<>>
  ELSE IF \E w \in Directionals : StartsWith(str, w)
  THEN LET w == CHOOSE d \in Directionals : StartsWith(str, d)
       IN RemoveDirectionals(SubSeq(str, Len(w) + 1, Len(str)))
  ELSE <<Head(str)>> \o RemoveDirectionals(Tail(str))

RECURSIVE TrimStart(_)
TrimStart(str) ==
  IF str # <<>> /\ IsSpace(Head(str)) THEN TrimStart(Tail(str)) ELSE str

RECURSIVE TrimEnd(_)
TrimEnd(str) ==
  IF str # <<>> /\ IsSpace(str[Len(str)]) THEN TrimEnd(SubSeq(str, 1, Len(str) - 1)) ELSE str

trim(str) == TrimEnd(TrimStart(str))

UNKNOWN_STR == <<"u", "n", "k", "n", "o", "w", "n">>

normalizeRegion(region) ==
  IF region = <<>> THEN UNKNOWN_STR
  ELSE LET cleaned == trim(RemoveDirectionals(RemoveAfterComma(
                        RemoveParentheticals(toLowerCase(region)))))
       IN IF cleaned = <<>> THEN UNKNOWN_STR ELSE cleaned

RegionInit ==
  InitBase /\ callArg \in {Concat(ps) : ps \in SeqsUpTo(RegionPieces, MaxPieces)}

NormalizeRegionCall ==
  /\ callFn = "none"
  /\ callFn' = "normalizeRegion"
  /\ callRet' = normalizeRegion(callArg)
  /\ UNCHANGED <<analyzeVars, refineVars, ai, outOfOrder, stub, firstOutcome, callArg, routeVars>>

RegionNext == NormalizeRegionCall

RegionSpec == RegionInit /\ [][RegionNext]_vars

\* ------------------------------- refineImageLocation called twice in a row
\* against a reasoning service that answers deterministically: the response
\* is a function of the request
\* the previous result the caller holds: an Analyze that ran to Done on a
\* reply without confidence fields, one expert having reported no clue
PreviousResult ==
  [DecodeResult(NoSearchPayload, <<>>, FALSE) EXCEPT !.isDefinitive = TRUE]

Analyzed ==
  /\ phase = "Done"
  /\ experts = [e \in ExpertNames |->
                  IF e = "natural_environment"
                  THEN Promise("fulfilled", FALSE,
                               [expertType |-> e, searchableClues |-> <<>>], NoError)
                  ELSE Promise("fulfilled", TRUE, NoOutput, NoError)]
  /\ expertRuns = [e \in ExpertNames |-> 1]
  /\ validResults = <<[expertType |-> "natural_environment", searchableClues |-> <<>>]>>
  /\ aggregated = NoClues
  /\ aggCount = 1
  /\ verifyCount = 1
  /\ normCount = 1
  /\ vpos = "returned"
  /\ calls = <<CallOf("full")>>
  /\ decoded = NoDecoded
  /\ verr = NoError
  /\ result = PreviousResult
  /\ outcome = Returned(PreviousResult)

\* the server process either served that Analyze (client created) or was
\* started after it (previousResult arrives in the request body)
RefineTwiceInit ==
  /\ Analyzed
  /\ rpos = "idle"
  /\ rcalls = <<>>
  /\ routcome = NoOutcome
  /\ ai \in {NoClient, getAI(NoClient)}
  /\ outOfOrder = FALSE
  /\ stub \in [{"full", "tool_reduced"} -> SearchResponses]
  /\ firstOutcome = NoOutcome
  /\ callFn = "none"
  /\ callArg = Unused
  /\ callRet = Unused
  /\ credits = DefaultCredits
  /\ requests = [q \in Requests |-> NoRequest]

\* the service answers the pending request as the stub prescribes
RefineRespondStub ==
  /\ rpos \in {"full", "retry"}
  /\ RefineRespond(stub[CallOf(rpos).kind])

\* the first call has settled; the caller keeps what it got and is ready
\* to send the same request again
RefineAgain ==
  /\ rpos \in {"returned", "threw"}
  /\ firstOutcome = NoOutcome
  /\ firstOutcome' = routcome
  /\ rpos' = "idle"
  /\ rcalls' = <<>>
  /\ routcome' = NoOutcome
  /\ UNCHANGED <<analyzeVars, ai, outOfOrder, stub, callFn, callArg, callRet, routeVars>>

RefineTwiceNext ==
  \/ RefineStart
  \/ RefineRespondStub
  \/ RefineAgain

RefineTwiceSpec == RefineTwiceInit /\ [][RefineTwiceNext]_vars

\* ------------------------------------------------------ aggregateClues alone
\* most expert results handed to aggregateClues
MaxAggregated == 2

\* expert outputs: with and without the transcribedText field
AggregatorInit ==
  LET AggregatorOutputs ==
  {[expertType |-> "text", searchableClues |-> SubSeq(ClueList, 1, n), transcribedText |-> t] :
     n \in {0, 1, 3}, t \in {<<>>, <<"Cafe">>, <<"cafe ">>, <<"Cafe", "">>, <<"tram", "Cafe">>}}
  \cup {[expertType |-> "built_environment", searchableClues |-> SubSeq(ClueList, m, n)] :
          m \in {1, 2}, n \in {1, 2}}
  IN InitBase /\ callArg \in SeqsUpTo(AggregatorOutputs, MaxAggregated)

AggregateCall ==
  /\ callFn = "none"
  /\ callFn' = "aggregateClues"
  /\ callRet' = aggregateClues(callArg)
  /\ UNCHANGED <<analyzeVars, refineVars, ai, outOfOrder, stub, firstOutcome, callArg, routeVars>>

AggregatorNext == AggregateCall

AggregatorSpec == AggregatorInit /\ [][AggregatorNext]_vars

\* ------------------------------------- one step of a fallback controller
\* a controller waiting at a position, and the answer it gets
ControllerInit ==
  /\ InitBase
  /\ callArg \in {[fn |-> "runFinalSearch", pos |-> p, r |-> r] :
                    p \in CallPositions, r \in SearchResponses}
                 \cup {[fn |-> "callGeminiWithRetry", pos |-> p, r |-> r] :
                         p \in {"full", "retry"}, r \in SearchResponses}

FinalSearchStep ==
  /\ callFn = "none"
  /\ callArg.fn = "runFinalSearch"
  /\ callFn' = "runFinalSearch"
  /\ callRet' = runFinalSearchStep(callArg.pos, callArg.r)
  /\ UNCHANGED <<analyzeVars, refineVars, ai, outOfOrder, stub, firstOutcome, callArg, routeVars>>

RetryStep ==
  /\ callFn = "none"
  /\ callArg.fn = "callGeminiWithRetry"
  /\ callFn' = "callGeminiWithRetry"
  /\ callRet' = callGeminiWithRetryStep(callArg.pos, callArg.r)
  /\ UNCHANGED <<analyzeVars, refineVars, ai, outOfOrder, stub, firstOutcome, callArg, routeVars>>

ControllerNext ==
  \/ FinalSearchStep
  \/ RetryStep

ControllerSpec == ControllerInit /\ [][ControllerNext]_vars

\* ------------------------------------------------------ POST /api/analyze
\* confidenceScore given to a result that takes the EXIF coordinates
ExifConfidenceScore == 85

validateGpsCoordinates(lat, lng) ==
  IF lat = 0 /\ lng = 0 THEN FALSE
  ELSE IF lat < -90 \/ lat > 90 THEN FALSE
  ELSE IF lng < -180 \/ lng > 180 THEN FALSE
  ELSE TRUE

\* the catch of the route: every error but INSUFFICIENT_CREDITS is refunded
Failing(q, code) ==
  [requests EXCEPT ![q].pc = IF code # "INSUFFICIENT_CREDITS" THEN "refund" ELSE "failed",
                   ![q].code = code, ![q].exif = NoExif]

\* the image list is checked and the EXIF of the images extracted
Receive(q, images, exif) ==
  /\ requests[q].pc = "idle"
  /\ requests' = IF images = "empty" THEN Failing(q, "NO_IMAGES")
                 ELSE IF images = "tooMany" THEN Failing(q, "TOO_MANY_IMAGES")
                 ELSE [requests EXCEPT ![q].pc = "readUser", ![q].exif = exif]
  /\ UNCHANGED <<analyzeVars, refineVars, ai, outOfOrder, stub, firstOutcome,
                 callFn, callArg, callRet, credits>>

\* SELECT * FROM users resolves; user.credits < totalCost is tested on it
ReadUser(q) ==
  /\ requests[q].pc = "readUser"
  /\ requests' = IF credits < DefaultSearchCost THEN Failing(q, "INSUFFICIENT_CREDITS")
                 ELSE [requests EXCEPT ![q].pc = "deduct"]
  /\ UNCHANGED <<analyzeVars, refineVars, ai, outOfOrder, stub, firstOutcome,
                 callFn, callArg, callRet, credits>>

\* UPDATE users SET credits = credits - ? resolves
Deduct(q) ==
  /\ requests[q].pc = "deduct"
  /\ credits' = credits - DefaultSearchCost
  /\ requests' = [requests EXCEPT ![q].pc = "analyze", ![q].deducted = DefaultSearchCost]
  /\ UNCHANGED <<analyzeVars, refineVars, ai, outOfOrder, stub, firstOutcome,
                 callFn, callArg, callRet>>

\* the result with the EXIF coordinates added when it has none; the
\* coordinates field holds a label, the numbers copied stand beside it
WithExif(res, exif) ==
  IF exif.hasGps /\ ~res.coordinates.present
  THEN [NoResponse EXCEPT
          !.result = [res EXCEPT !.coordinates = Some("exif"),
                                 !.confidenceScore = Max(@, ExifConfidenceScore)],
          !.exifCopied = TRUE, !.lat = exif.latitude, !.lng = exif.longitude]
  ELSE [NoResponse EXCEPT !.result = res]

\* analyzeImageLocation settles
AnalyzeSettle(q, o) ==
  /\ requests[q].pc = "analyze"
  /\ requests' = IF o.kind = "error" THEN Failing(q, "ANALYSIS_FAILED")
                 ELSE [requests EXCEPT ![q].pc = "readBack", ![q].exif = NoExif,
                                       ![q].response = WithExif(o.result, requests[q].exif)]
  /\ UNCHANGED <<analyzeVars, refineVars, ai, outOfOrder, stub, firstOutcome,
                 callFn, callArg, callRet, credits>>

\* SELECT credits resolves and res.json is sent
Respond(q) ==
  /\ requests[q].pc = "readBack"
  /\ requests' = [requests EXCEPT ![q].pc = "done",
                                  ![q].response.sent = TRUE,
                                  ![q].response.creditsRemaining = credits]
  /\ UNCHANGED <<analyzeVars, refineVars, ai, outOfOrder, stub, firstOutcome,
                 callFn, callArg, callRet, credits>>

\* UPDATE users SET credits = credits + ? of the catch resolves; next(error)
Refund(q) ==
  /\ requests[q].pc = "refund"
  /\ credits' = credits + DefaultSearchCost
  /\ requests' = [requests EXCEPT ![q].pc = "failed", ![q].refunded = DefaultSearchCost]
  /\ UNCHANGED <<analyzeVars, refineVars, ai, outOfOrder, stub, firstOutcome,
                 callFn, callArg, callRet>>

\* balances the user can hold when the requests arrive
RouteInit ==
  InitCore /\ callArg = Unused /\ credits \in {0, DefaultSearchCost, 2 * DefaultSearchCost}

\* req.body.images is a list of 1 to 4 images, none, or more than 4; the
\* first image carries no GPS tags or a pair of them; analyzeImageLocation
\* hands back the all-experts-failed error, a verified result with or without
\* coordinates, or the fallback result
RouteNext ==
  \E q \in Requests :
    \/ \E images \in {"ok", "empty", "tooMany"},
          exif \in {NoExif} \cup {[hasGps |-> TRUE, latitude |-> c[1], longitude |-> c[2]] :
                                    c \in {<<48, 2>>, <<0, 0>>, <<95, 10>>}} :
         Receive(q, images, exif)
    \/ ReadUser(q)
    \/ Deduct(q)
    \/ \E o \in {Raised(AllExpertsFailedError), Returned(fallbackResult(NoClues))}
                 \cup {Returned([DecodeResult(d, <<>>, FALSE) EXCEPT !.isDefinitive = TRUE]) :
                         d \in SearchPayloads} :
         AnalyzeSettle(q, o)
    \/ Respond(q)
    \/ Refund(q)

RouteSpec == RouteInit /\ [][RouteNext]_vars

\* =============================================================== claims
Terminal == {"ExpertsFailed", "FallbackResult", "Done"}

Settled(e) == experts[e].state \in {"fulfilled", "rejected"}
Succeeded == {e \in ExpertNames : experts[e].state = "fulfilled" /\ ~experts[e].isNull}
Failed == {e \in ExpertNames : Settled(e) /\ experts[e].isNull}

CallsOfKind(k) == {i \in DOMAIN calls : calls[i].kind = k}

RECURSIVE SumOver(_, _)
SumOver(S, f) ==
  IF S = {} THEN 0
  ELSE LET x == CHOOSE y \in S : TRUE IN f[x] + SumOver(S \ {x}, f)

ExternalCalls == SumOver(ExpertNames, expertRuns) + Len(calls)

\* C1: one runFinalSearch invocation never sends more than 3 requests
\* (full, tool-reduced, text-only), whatever each request's outcome.
C1_AtMostThreeCalls == Len(calls) <= 3

\* C2: within one verification the tool-reduced request is sent at most
\* once and the text-only request is sent at most once, also when the
\* text-only request itself comes back empty or fails.
C2_EachStepAtMostOnce ==
  /\ Cardinality(CallsOfKind("tool_reduced")) <= 1
  /\ Cardinality(CallsOfKind("text_only")) <= 1

\* C3: Analyze raises only when every expert failed; once an expert has
\* succeeded, a verification that throws ends in the returned fallback
\* result and no error reaches the caller.
C3_ErrorOnlyOnTotalExpertFailure ==
  /\ outcome.kind = "error" =>
       /\ Succeeded = {}
       /\ outcome.err = AllExpertsFailedError
  /\ (vpos = "threw" /\ phase \in Terminal) =>
       /\ phase = "FallbackResult"
       /\ outcome = Returned(fallbackResult(aggregated))

C3_Witness ==
  /\ phase = "FallbackResult"
  /\ vpos = "threw"
  /\ verr.origin = "external"
  /\ Succeeded # {}
  /\ outcome.kind = "result"

\* C4: neither Analyze nor Refine hands its caller the Error object of a
\* rejected generateContent call; the caller gets a result or a
\* pipeline-level error.
C4_NoRawExternalError ==
  /\ outcome.err.origin # "external"
  /\ routcome.err.origin # "external"

\* C5: the expert fan-out is joined wait-all: past the join every expert
\* call has settled, whatever the order of completion, and the result of
\* every expert that succeeded is kept although another expert failed.
C5_WaitAll ==
  /\ phase \notin {"Started", "ExpertsRunning"} =>
       /\ \A e \in ExpertNames : Settled(e)
       /\ \A e \in Succeeded : \E i \in DOMAIN validResults : validResults[i] = experts[e].out
  /\ aggCount > 0 => \A e \in ExpertNames : Settled(e)

C5_Witness ==
  /\ aggCount = 1
  /\ Failed # {}
  /\ Cardinality(Succeeded) = 2
  /\ Len(validResults) = 2

\* C6 as stated: a request that ends with a result has run each expert
\* once, aggregation once, verification once and normalization once, be
\* the result the verified one or the fallback.
C6_NormalizedOnceAlways ==
  phase \in {"Done", "FallbackResult"} =>
    /\ \A e \in ExpertNames : expertRuns[e] = 1
    /\ aggCount = 1
    /\ verifyCount = 1
    /\ normCount = 1

\* C6 amended: each expert runs once; aggregation runs once and only
\* after all experts settled; verification runs once and only after
\* aggregation; normalization runs once on a successful verification
\* outcome and not at all when the outcome is the fallback.
C6_RunOnceInOrder ==
  /\ \A e \in ExpertNames : expertRuns[e] = (IF phase = "Started" THEN 0 ELSE 1)
  /\ aggCount <= 1 /\ verifyCount <= 1 /\ normCount <= 1
  /\ aggCount = 1 => \A e \in ExpertNames : Settled(e)
  /\ verifyCount = 1 => aggCount = 1
  /\ normCount = 1 => (verifyCount = 1 /\ vpos = "returned")
  /\ phase = "Done" => (aggCount = 1 /\ verifyCount = 1 /\ normCount = 1)
  /\ phase = "FallbackResult" => (aggCount = 1 /\ verifyCount = 1 /\ normCount = 0)

C6_Witness ==
  /\ phase = "FallbackResult"
  /\ outcome.kind = "result"
  /\ normCount = 0
  /\ Len(calls) > 1

\* C7: the pipeline moves only along the stage graph, and never leaves
\* a terminal stage.
PipelineTransitions ==
  { <<"Started", "ExpertsRunning">>,
    <<"ExpertsRunning", "ExpertsFailed">>,
    <<"ExpertsRunning", "ExpertsComplete">>,
    <<"ExpertsComplete", "Aggregating">>,
    <<"Aggregating", "Verifying">>,
    <<"Verifying", "VerificationFailed">>,
    <<"VerificationFailed", "FallbackResult">>,
    <<"Verifying", "VerificationComplete">>,
    <<"VerificationComplete", "Normalizing">>,
    <<"Normalizing", "Done">> }

C7_OnlyPipelineTransitions ==
  [][ /\ phase' # phase => <<phase, phase'>> \in PipelineTransitions
      /\ phase \in Terminal => phase' = phase ]_vars

C7_Witness ==
  /\ phase = "Done"
  /\ outcome.kind = "result"
  /\ rpos # "idle"

\* C8: when every external call is answered, every Analyze request
\* reaches a terminal stage, and the external calls of one request never
\* exceed a fixed number (one per expert plus five of the final search).
C8_TerminatesWithBoundedCalls ==
  /\ <>(phase \in Terminal)
  /\ [](ExternalCalls <= Len(CLUE_EXPERTS) + 5)

C8_Witness ==
  /\ phase \in Terminal
  /\ ExternalCalls = Len(CLUE_EXPERTS) + 5

\* C9: when all expert calls fail, the request ends with the
\* all-experts-failed error and neither aggregation nor any verification
\* request happens.
C9_AllFailedAborts ==
  (Failed = ExpertNames /\ phase # "ExpertsRunning") =>
    /\ phase = "ExpertsFailed"
    /\ outcome = Raised(AllExpertsFailedError)
    /\ aggCount = 0
    /\ verifyCount = 0
    /\ calls = <<>>

C9_Witness ==
  /\ Failed = ExpertNames
  /\ phase = "ExpertsFailed"
  /\ outcome.kind = "error"

\* C10: when some but not all experts fail, no error escapes the Runner
\* and aggregation uses exactly the outputs of the experts that succeeded.
C10_PartialFailureDropped ==
  (aggCount = 1 /\ Failed # {}) =>
    /\ outcome.kind # "error"
    /\ Len(validResults) = Cardinality(Succeeded)
    /\ \A e \in Succeeded : \E i \in DOMAIN validResults : validResults[i] = experts[e].out
    /\ Len(aggregated.searchableClues)
         = SumOver(Succeeded, [e \in ExpertNames |-> Len(experts[e].out.searchableClues)])
    /\ \A e \in Succeeded : \A j \in DOMAIN experts[e].out.searchableClues :
         \E i \in DOMAIN aggregated.searchableClues :
           aggregated.searchableClues[i] = experts[e].out.searchableClues[j]

C10_Witness ==
  /\ phase = "Aggregating"
  /\ Cardinality(Failed) = 1
  /\ Cardinality(Succeeded) = 2
  /\ Len(aggregated.searchableClues) = 2 * MaxCluesPerExpert

\* C11: the Runner returns the successful outputs in panel order (text,
\* built environment, natural environment), in whatever order the expert
\* calls completed.
C11_PanelOrder ==
  phase \notin {"Started", "ExpertsRunning"} =>
    /\ \A i \in DOMAIN validResults : validResults[i].expertType \in Succeeded
    /\ \A i, j \in DOMAIN validResults :
         i < j => PanelIndex(validResults[i].expertType) < PanelIndex(validResults[j].expertType)

C11_Witness ==
  /\ phase = "ExpertsComplete"
  /\ outOfOrder
  /\ Len(validResults) = Len(CLUE_EXPERTS)

\* ---- claims about buildCandidatesFromConsensus (BuilderSpec)
BuiltNow == callFn = "buildCandidatesFromConsensus"

\* the pool the builder ranks, and its rounded percentages
Pool == SubSeq(callArg, 1, Min(CandidatePoolSize, Len(callArg)))
PoolTotal == TotalScore(Pool)
PoolPercent(i) == RoundPercent(Pool[i].score, PoolTotal)
TopPercent == CHOOSE p \in {PoolPercent(i) : i \in DOMAIN Pool} :
                \A i \in DOMAIN Pool : PoolPercent(i) <= p
\* the largest percentage once one top entry is set aside
SecondPercent ==
  LET t == CHOOSE i \in DOMAIN Pool : PoolPercent(i) = TopPercent
  IN CHOOSE p \in {PoolPercent(i) : i \in DOMAIN Pool \ {t}} :
       \A i \in DOMAIN Pool \ {t} : PoolPercent(i) <= p

ScoresOf(rs) == [i \in DOMAIN rs |-> rs[i].score]
ProbabilitiesOf(cs) == [i \in DOMAIN cs |-> cs[i].probability]

RECURSIVE SumSeq(_)
SumSeq(xs) == IF xs = <<>> THEN 0 ELSE Head(xs) + SumSeq(Tail(xs))

C13_ProbabilitiesSumTo100 ==
  BuiltNow =>
    /\ SumSeq(ProbabilitiesOf(callRet.candidates)) <= 100
    /\ \A i \in DOMAIN callRet.candidates :
         callRet.candidates[i].probability \in 0..100

DecodedNow == callFn = "processGeminiResponse" /\ callRet.kind = "result"

Percent == 0..100

InPercent(v) == v.present => v.val \in Percent

ResultInRange(res) ==
  /\ res.confidenceScore \in Percent
  /\ InPercent(res.confidence.region)
  /\ InPercent(res.confidence.local)
  /\ res.candidates = "undefined"

\* C15: every returned result has confidenceScore, confidence.region and
\* confidence.local within 0..100 whatever the response carried (and no
\* candidate with a probability outside 0..100).
C15_ConfidenceClamped ==
  /\ DecodedNow => ResultInRange(callRet.result)
  /\ outcome.kind = "result" => ResultInRange(outcome.result)
  /\ routcome.kind = "result" => ResultInRange(routcome.result)

\* C17: a decoded confidence with a region but no local gets
\* local = round(0.7 * region) in the result.
C17_LocalDefaultsToSeventyPercent ==
  LET given == callArg.text.data.confidence
  IN (DecodedNow /\ given.present /\ given.val.region.present /\ ~given.val.local.present) =>
       callRet.result.confidence.local = Some(RoundSeventy(given.val.region.val))

\* C18: every evidence item of a decoded result has strength hard,
\* medium or soft.
C18_StrengthInEnum ==
  DecodedNow =>
    \A i \in DOMAIN callRet.result.evidence :
      callRet.result.evidence[i].strength \in {"hard", "medium", "soft"}

\* ---- claims about parseResponse on raw text (ParserSpec)
ParsedNow == callFn = "parseResponse"

\* the characters from the first "{" to the last "}", none when the last
\* "}" stands before the first "{"
BraceSpan == SubSeq(callArg, IndexOf(callArg, "{"), LastIndexOf(callArg, "}"))

\* C19: parseResponse returns a value only when the text is not empty,
\* holds both braces and the span from the first "{" to the last "}"
\* parses as JSON, and the value is the parse of exactly that span; in
\* every other case it raises and returns nothing.
C19_ParsesFirstToLastBrace ==
  ParsedNow =>
    IF \/ callArg = <<>>
       \/ IndexOf(callArg, "{") = 0
       \/ LastIndexOf(callArg, "}") = 0
       \/ ~IsJson(BraceSpan)
    THEN ~callRet.ok
    ELSE callRet.ok /\ callRet.data = JsonParse(BraceSpan)

\* ---- claims about normalizeRegion (RegionSpec)
\* C16: normalizing an already normalized region changes nothing:
\* normalizeRegion(normalizeRegion(x)) = normalizeRegion(x).
C16_NormalizeRegionIdempotent ==
  callFn = "normalizeRegion" => normalizeRegion(callRet) = callRet

\* ---- claims about Refine called twice (RefineTwiceSpec)
SecondRunSettled == firstOutcome # NoOutcome /\ rpos \in {"returned", "threw"}

Folded(str) ==
  IF str \in {"Cafe", "cafe "} THEN "cafe" ELSE str

NoTwoAlike(xs, key(_)) ==
  \A i, j \in DOMAIN xs : key(xs[i]) = key(xs[j]) => i = j

ClueKey(c) == Folded(c.clue)

Same(x) == x

\* C21: the merged searchableClues and the free-text bucket hold no two
\* entries equal under a trimmed, case-insensitive comparison, and the
\* suggested queries are the non-null searchQuery values, each once, in
\* order of first appearance.
C21_DedupFolded ==
  callFn = "aggregateClues" =>
    /\ NoTwoAlike(callRet.searchableClues, ClueKey)
    /\ NoTwoAlike(callRet.allText, Folded)
    /\ NoTwoAlike(callRet.suggestedSearchQueries, Same)
    /\ {callRet.suggestedSearchQueries[i] : i \in DOMAIN callRet.suggestedSearchQueries}
         = {callArg[e].searchableClues[i].searchQuery.val :
              <<e, i>> \in {<<x, y>> \in (DOMAIN callArg) \X (1..Len(ClueList)) :
                            /\ y \in DOMAIN callArg[x].searchableClues
                            /\ callArg[x].searchableClues[y].searchQuery.present}}

\* ---- claims about one controller step (ControllerSpec)
ControllerStepped == callFn \in {"runFinalSearch", "callGeminiWithRetry"}

\* an error whose message names none of the classes the controllers test
Unrecognized(e) == e.origin # "none" /\ ~e.coord /\ ~e.noresp /\ ~e.safety

\* the failure of the attempt answered by callArg.r: the rejection of the
\* call, or for runFinalSearch the decoding error of an unparsable text
AttemptFailure ==
  IF callArg.r.rejected THEN callArg.r.err
  ELSE IF callArg.fn = "runFinalSearch" /\ callArg.r.text.kind \in {"nobrace", "badjson"}
  THEN InvalidJsonError
  ELSE NoError

\* C22: an attempt that fails with an unrecognized failure class makes the
\* controller throw that failure at once, without another call.
C22_UnrecognizedPropagates ==
  (ControllerStepped /\ Unrecognized(AttemptFailure)) =>
    (callRet.t = "throw" /\ callRet.err = AttemptFailure)

\* a text-only call awaited inside the outer try is rejected with an
\* unrecognized error: the outer catch rethrows it
C22_Witness ==
  /\ callFn = "runFinalSearch"
  /\ callArg.pos = "textAfterEmptyFull"
  /\ callArg.r.rejected
  /\ Unrecognized(callArg.r.err)
  /\ callRet = Throw(callArg.r.err)

\* ---- claims about the order of verification calls (Spec)
ToolReducedCall == [kind |-> "tool_reduced", images |-> TRUE, tools |-> {"googleSearch"}]

Issued(before, after) == Len(after) = Len(before) + 1

\* the full call of runFinalSearch is rejected citing coordinates
FullCoordRejected ==
  /\ vpos = "full"
  /\ \E r \in SearchResponses : r.rejected /\ r.err.coord /\ SearchRespond(r)

\* the full call of callGeminiWithRetry is rejected citing coordinates
RefineFullCoordRejected ==
  /\ rpos = "full"
  /\ \E r \in SearchResponses : r.rejected /\ r.err.coord /\ RefineRespond(r)

\* C23: a coordinate rejection of the full call is followed at once by the
\* same request without googleMaps, and a tool-reduced call is issued in
\* no other step.
C23_ToolReducedOnlyAfterCoordRejection ==
  [][ /\ FullCoordRejected => (Issued(calls, calls') /\ calls'[Len(calls')] = ToolReducedCall)
      /\ (Issued(calls, calls') /\ calls'[Len(calls')].kind = "tool_reduced")
           => FullCoordRejected
      /\ RefineFullCoordRejected
           => (Issued(rcalls, rcalls') /\ rcalls'[Len(rcalls')] = ToolReducedCall)
      /\ (Issued(rcalls, rcalls') /\ rcalls'[Len(rcalls')].kind = "tool_reduced")
           => RefineFullCoordRejected ]_vars

TextOnlyCall == [kind |-> "text_only", images |-> FALSE, tools |-> {"googleSearch"}]

\* the answer of callArg.r is an empty text, or a rejection whose message
\* names no response / no text / safety / blocked
EmptyOrSafety(r) ==
  \/ ~r.rejected /\ r.text.kind = "empty"
  \/ r.rejected /\ (r.err.noresp \/ r.err.safety)

\* C24: an empty response to the full call or to the retry of
\* runFinalSearch makes the next call a text-only call without images; a
\* text-only call is issued only on an empty response or a safety
\* failure, and callGeminiWithRetry never issues one.
C24_TextOnlyAfterEmpty ==
  ControllerStepped =>
    /\ ( /\ callArg.fn = "runFinalSearch"
         /\ callArg.pos \in {"full", "retry"}
         /\ ~callArg.r.rejected
         /\ callArg.r.text.kind = "empty" )
         => (callRet.t = "call" /\ CallOf(callRet.pos) = TextOnlyCall)
    /\ (callRet.t = "call" /\ CallOf(callRet.pos).kind = "text_only")
         => (callArg.fn = "runFinalSearch" /\ EmptyOrSafety(callArg.r))

\* the retry without googleMaps came back empty and the text-only call is next
C24_Witness ==
  /\ callFn = "runFinalSearch"
  /\ callArg.pos = "retry"
  /\ ~callArg.r.rejected
  /\ callArg.r.text.kind = "empty"
  /\ callRet = Goto("textAfterEmptyRetry")

\* ---- claims about the results of Analyze (Spec)
\* C25: when verification failed, the result Analyze returns has
\* confidenceScore 20, no coordinates, no sources, and one evidence item
\* per aggregated searchable clue, in order, with that clue's text.
C25_FallbackShape ==
  phase = "FallbackResult" =>
    /\ outcome.kind = "result"
    /\ outcome.result.confidenceScore = 20
    /\ outcome.result.coordinates = NoString
    /\ outcome.result.sources = <<>>
    /\ Len(outcome.result.evidence) = Len(aggregated.searchableClues)
    /\ \A i \in DOMAIN aggregated.searchableClues :
         outcome.result.evidence[i].clue = aggregated.searchableClues[i].clue

\* verification failed with two or more clues aggregated
C25_Witness ==
  /\ phase = "FallbackResult"
  /\ Len(aggregated.searchableClues) >= 2
  /\ Len(outcome.result.evidence) = Len(aggregated.searchableClues)

\* ---- more claims about buildCandidatesFromConsensus (BuilderSpec)
\* the pool entries that reach the noise floor
Viable == {i \in DOMAIN Pool : PoolTotal > 0 /\ PoolPercent(i) >= 15}

C27_RefundOnlyWhatWasDeducted ==
  \A q \in Requests : requests[q].refunded <= requests[q].deducted

\* C28: the balance never becomes negative, whatever the interleaving of
\* the user's requests.
C28_CreditsNeverNegative == credits >= 0

\* C30: coordinates copied from EXIF into a response satisfy
\* validateGpsCoordinates.
C30_ExifCoordinatesValid ==
  \A q \in Requests :
    (requests[q].response.sent /\ requests[q].response.exifCopied) =>
      validateGpsCoordinates(requests[q].response.lat, requests[q].response.lng)

====
